---- MODULE Spec2Model ----
(***************************************************************************)
(* Scheduling control loop of the dstack server:                           *)
(*   src/src/dstack/_internal/server/background/tasks/                     *)
(*       process_submitted_jobs.py                                         *)
(*   src/src/dstack/_internal/server/services/runs.py                      *)
(* Several invocations of process_submitted_jobs run as coroutines of one  *)
(* event loop; every `await` of the code is a point where another          *)
(* invocation may run, so every action below is the code between two       *)
(* awaits (a database commit is atomic).                                   *)
(* The run service (submit_run, delete_runs, run_model_to_run) and the     *)
(* run heads of the cli backend                                            *)
(*   src/cli/dstack/_internal/backend/base/runs.py                         *)
(* are modelled by specifications of their own over their own variables.   *)
(***************************************************************************)
EXTENDS Integers, Sequences, FiniteSets, TLC

\* ---- bounds of the model ------------------------------------------------
NumJobs == 2
NumProcs == 2
NumPoolInstances == 1
NumCandidates == 2
MaxOffers == 2
MaxTime == 1
NumSubmitters == 2
NumRunNames == 1
MaxRuns == 2
MaxRunJobs == 2
MaxSubmissions == 2
NumHeads == 2
MaxKeys == 3
NumSecrets == 2
NumTexts == 2

\* ---- program constants ---------------------------------------------------
RetryWindow == 1

Jobs == 1..NumJobs
Procs == 1..NumProcs
Offers == 1..MaxOffers

NoJob == 0
NoPool == 0
NoProc == 0
DEFAULT_POOL_NAME == "default"

VARIABLES
    now,                \* common_utils.get_current_datetime()
    runs,               \* RunModel rows: run id -> profile of the run spec
    jobs,               \* JobModel rows: job id -> status, error_code, job_provisioning_data
    instances,          \* InstanceModel rows, in insertion order
    pools,              \* PoolModel rows of the project, in insertion order (index = id)
    default_pool_id,    \* ProjectModel.default_pool_id
    lock,               \* holder of SUBMITTED_PROCESSING_JOBS_LOCK
    inflight,           \* SUBMITTED_PROCESSING_JOBS_IDS
    pc,                 \* position of every invocation of process_submitted_jobs
    loc,                \* local variables of every invocation
    run_models,         \* services/runs.py: RunModel rows with their JobModel rows
    name_lock,          \* holder of _PROJECTS_TO_RUN_NAMES_LOCK[project.name]
    sub,                \* position and locals of every submit_run call
    converted,          \* the Run returned by the last run_model_to_run
    returned,           \* the rows returned by the get_run or list_project_runs under way
    storage,            \* backend/base: the jobs kept in the storage
    grh,                \* position and locals of the get_run_heads call
    argument,           \* the argument of the pure function under study
    result              \* what the function returned or raised

svcVars == <<run_models, name_lock, sub, converted, returned>>
cliVars == <<storage, grh>>
fnVars == <<argument, result>>
vars == <<now, runs, jobs, instances, pools, default_pool_id, lock, inflight, pc, loc,
          run_models, name_lock, sub, converted, returned, storage, grh,
          argument, result>>

\* ---- values --------------------------------------------------------------
NoPdata == [kind |-> "none", id |-> 0, pool_id |-> NoPool]
NoResult == [pdata |-> NoPdata, offer |-> 0]

\* JobModel.run_id: the run of job j; the name of its job spec
RunOf(j) == jobs[j].run_id
JobName(j) == NumPoolInstances + j

\* the provisioning data and the price stored with pool instance k
PoolPdata(k) == [kind |-> "pool", id |-> k, pool_id |-> 1]
PoolPrice(k) == NumPoolInstances + 1 - k
OfferPrice(o) == o

\* create_job_model_for_new_submission: the row of job job_num of run r
NewJobRow(r, job_num) ==
    [run_id |-> r, job_num |-> job_num, status |-> "SUBMITTED", error_code |-> "None",
     job_provisioning_data |-> NoPdata]

InitLoc ==
    [job_id |-> NoJob, excluded |-> {}, pool |-> NoPool, set_default |-> FALSE,
     relevant |-> {}, offers |-> <<>>, oi |-> 0, calls |-> <<>>,
     offers_queried |-> FALSE, fatal |-> FALSE, result |-> NoResult]

\* the pool instances a project may hold before the jobs are scheduled: fit and
\* READY, READY but too small for the runs, fit but not READY yet
PoolInstanceKinds ==
    {[status |-> "READY", cpus |-> 4], [status |-> "READY", cpus |-> 1],
     [status |-> "STARTING", cpus |-> 4]}

PoolInstance(k, kind) ==
    [name |-> k, pool |-> 1, status |-> kind.status, job |-> NoJob, cpus |-> kind.cpus,
     job_provisioning_data |-> PoolPdata(k), price |-> PoolPrice(k),
     termination_policy |-> "destroy-after-idle", termination_idle_time |-> 300]

\* ---- the run service and the run heads, before any call -----------------
Submitters == 1..NumSubmitters
RunNames == 1..NumRunNames
Heads == 1..NumHeads
NoName == 0
NoSubmitter == 0
NoSubmission == [id |-> 0, submission_num |-> 0, status |-> "None"]
NoRun == [status |-> "None", latest_job_submission |-> NoSubmission, jobs |-> <<>>]

\* JobStatus.finished_statuses()
FinishedStatuses == {"DONE", "FAILED", "TERMINATED", "ABORTED"}
NoJobRecord == [status |-> "None", error_code |-> "None", retry_active |-> FALSE]
NoReturn == [call |-> "None", rows |-> {}]
NoRunHead == [status |-> "None", job_heads |-> <<>>]

IdleSubmitter ==
    [pc |-> "idle", run_name |-> NoName, idx |-> 0, pool_name |-> "None",
     n_jobs |-> 0, create_pool |-> FALSE, outcome |-> "None",
     runs_names |-> {}, delete_only |-> FALSE]

IdleGetRunHeads ==
    [pc |-> "idle", job_heads |-> <<>>, include_request_heads |-> FALSE, i |-> 1,
     job |-> NoJobRecord, request |-> "None", head_was_unfinished |-> FALSE,
     runs_by_id |-> [n \in Heads |-> NoRunHead]]

IdleServices ==
    /\ run_models = <<>>
    /\ name_lock = NoSubmitter
    /\ sub = [s \in Submitters |-> IdleSubmitter]
    /\ converted = NoRun
    /\ returned = NoReturn

IdleCli ==
    /\ storage = <<>>
    /\ grh = IdleGetRunHeads

\* no function has been given an argument
NotCalled == [kind |-> "NotCalled"]

IdleFunctions ==
    /\ argument = NotCalled
    /\ result = NotCalled

Init ==
    /\ now = 0
    /\ runs \in [Jobs -> [creation_policy : {"reuse", "reuse-or-create"},
                          retry : BOOLEAN,
                          pool_name : {"None"},
                          termination_policy : {"destroy-after-idle"},
                          termination_idle_time : {300},
                          cpus : {2}]]
    /\ jobs = [j \in Jobs |-> NewJobRow(j, 0)]
    /\ \/ /\ pools = <<>>
          /\ instances = <<>>
       \/ /\ pools = <<[name |-> DEFAULT_POOL_NAME]>>
          /\ \E kinds \in [1..NumPoolInstances -> PoolInstanceKinds] :
                instances = [k \in 1..NumPoolInstances |-> PoolInstance(k, kinds[k])]
    /\ default_pool_id = NoPool
    /\ lock = NoProc
    /\ inflight = {}
    /\ pc = [p \in Procs |-> "idle"]
    /\ loc = [p \in Procs |-> InitLoc]
    /\ IdleServices
    /\ IdleCli
    /\ IdleFunctions

\* a pool instance that belongs to pool pl
PoolInstanceIn(k, kind, pl) ==
    [PoolInstance(k, kind) EXCEPT !.pool = pl, !.job_provisioning_data.pool_id = pl]

\* The state after one submit_run of a run with NumJobs jobs, whose profile may
\* name the pool "gpu": submit_run has made sure that a pool of that name
\* exists (lines 304-315), the project may or may not own a default pool.
InitSiblings ==
    /\ now = 0
    /\ \E profile \in [creation_policy : {"reuse", "reuse-or-create"},
                       retry : BOOLEAN,
                       pool_name : {"None", "gpu"},
                       termination_policy : {"destroy-after-idle"},
                       termination_idle_time : {300, 600},
                       cpus : {2}] :
          /\ runs = [r \in Jobs |-> profile]
          /\ \E ps \in {<<[name |-> "gpu"]>>,
                         <<[name |-> DEFAULT_POOL_NAME], [name |-> "gpu"]>>,
                         <<[name |-> DEFAULT_POOL_NAME]>>} :
                /\ pools = ps
                /\ profile.pool_name = "gpu" => \E k \in 1..Len(ps) : ps[k].name = "gpu"
                /\ \E kinds \in [1..NumPoolInstances -> PoolInstanceKinds] :
                      instances = [k \in 1..NumPoolInstances |->
                                      PoolInstanceIn(k, kinds[k], Len(ps))]
    /\ jobs = [j \in Jobs |-> NewJobRow(1, j - 1)]
    /\ default_pool_id = NoPool
    /\ lock = NoProc
    /\ inflight = {}
    /\ pc = [p \in Procs |-> "idle"]
    /\ loc = [p \in Procs |-> InitLoc]
    /\ IdleServices
    /\ IdleCli
    /\ IdleFunctions

\* ---- helpers -------------------------------------------------------------

\* services/pools.get_pool_instances: the instances of the project's pool(s)
\* named pool_name
get_pool_instances(pool_name) ==
    {i \in 1..Len(instances) : pools[instances[i].pool].name = pool_name}

\* services/pools.filter_pool_instances: the instances in the wanted status
\* whose resources satisfy the requirements of the run configuration
filter_pool_instances(pool_instances, run, st) ==
    {i \in pool_instances : /\ instances[i].status = st
                            /\ instances[i].cpus >= run.cpus}

\* sorted(relevant_instances, key=lambda instance: instance.name)[0]
\* (sorted is stable: equal names keep the order of the query result)
FirstByName(S) ==
    CHOOSE i \in S : \A k \in S :
        \/ instances[i].name < instances[k].name
        \/ instances[i].name = instances[k].name /\ i <= k

\* Job.is_retry_active: the retry policy is on and its window has not elapsed
is_retry_active(j) ==
    runs[RunOf(j)].retry /\ now < 0 + RetryWindow

\* the lists backends_services.get_instance_offers may return
RECURSIVE SeqsUpTo(_)
SeqsUpTo(n) ==
    IF n = 0 THEN {<<>>}
    ELSE LET shorter == SeqsUpTo(n - 1)
         IN shorter \cup {Append(s, o) : s \in {t \in shorter : Len(t) = n - 1},
                                         o \in Offers}
Injective(s) == \A a, b \in 1..Len(s) : s[a] = s[b] => a = b
OfferLists == {s \in SeqsUpTo(MaxOffers) : Injective(s)}

\* A project whose default pool holds NumCandidates READY instances, in every
\* order of the names and with every assignment of prices, and runs that may
\* only reuse an instance.
Candidates == 1..NumCandidates

InitPick ==
    /\ now = 0
    /\ runs = [r \in Jobs |-> [creation_policy |-> "reuse", retry |-> FALSE,
                                pool_name |-> "None",
                                termination_policy |-> "destroy-after-idle",
                                termination_idle_time |-> 300,
                                cpus |-> 2]]
    /\ jobs = [j \in Jobs |-> NewJobRow(j, 0)]
    /\ pools = <<[name |-> DEFAULT_POOL_NAME]>>
    /\ \E names \in {f \in [Candidates -> Candidates] : Injective(f)},
          prices \in [Candidates -> Candidates],
          kinds \in [Candidates -> {kind \in PoolInstanceKinds : kind.status = "READY"}] :
          instances = [k \in Candidates |->
                          [PoolInstance(names[k], kinds[k]) EXCEPT !.price = prices[k]]]
    /\ default_pool_id = NoPool
    /\ lock = NoProc
    /\ inflight = {}
    /\ pc = [p \in Procs |-> "idle"]
    /\ loc = [p \in Procs |-> InitLoc]
    /\ IdleServices
    /\ IdleCli
    /\ IdleFunctions

\* positions inside _process_job
InProcessJob == {"load", "create_pool", "read", "decide", "run_job", "commit", "committed"}

\* ---- process_submitted_jobs ---------------------------------------------

\* lines 47-53: the invocation opens its session, takes the lock and builds
\* the query, whose NOT IN list is the in-flight set at that moment
AcquireLock(p) ==
    /\ pc[p] = "idle"
    /\ lock = NoProc
    /\ lock' = p
    /\ loc' = [loc EXCEPT ![p].excluded = inflight]
    /\ pc' = [pc EXCEPT ![p] = "select"]
    /\ UNCHANGED <<now, runs, jobs, instances, pools, default_pool_id, inflight>>
    /\ UNCHANGED <<svcVars, cliVars, fnVars>>

\* the query without its NOT IN clause
SelectCandidates_IgnoringInFlight(p) ==
    {j \in Jobs : jobs[j].status = "SUBMITTED"}

\* the rows the query of lines 49-56 may return (LIMIT 1, no ORDER BY)
SelectCandidates(p) ==
    {j \in Jobs : jobs[j].status = "SUBMITTED" /\ j \notin loc[p].excluded}

\* lines 57-61: the query returns; no row ends the invocation, otherwise the
\* id joins the in-flight set and the lock is released
SelectJob(p) ==
    /\ pc[p] = "select"
    /\ lock' = NoProc
    /\ IF SelectCandidates(p) = {}
       THEN /\ pc' = [pc EXCEPT ![p] = "idle"]
            /\ loc' = [loc EXCEPT ![p] = InitLoc]
            /\ UNCHANGED inflight
       ELSE \E j \in SelectCandidates(p) :
            /\ inflight' = inflight \cup {j}
            /\ loc' = [loc EXCEPT ![p] = [InitLoc EXCEPT !.job_id = j]]
            /\ pc' = [pc EXCEPT ![p] = "leave_tx"]
    /\ UNCHANGED <<now, runs, jobs, instances, pools, default_pool_id>>
    /\ UNCHANGED <<svcVars, cliVars, fnVars>>

\* line 47 (exit of `async with get_session_ctx()`), reached after line 61
\* and before the try of line 63: the session is closed
LeaveClaimTx(p) ==
    /\ pc[p] = "leave_tx"
    /\ pc' = [pc EXCEPT ![p] = "load"]
    /\ UNCHANGED <<now, runs, jobs, instances, pools, default_pool_id, lock, inflight, loc>>
    /\ UNCHANGED <<svcVars, cliVars, fnVars>>

\* the exit of the claiming session raises: the exception leaves
\* process_submitted_jobs before the try/finally of lines 63-66 is entered
LeaveClaimTxRaises(p) ==
    /\ pc[p] = "leave_tx"
    /\ pc' = [pc EXCEPT ![p] = "idle"]
    /\ loc' = [loc EXCEPT ![p] = InitLoc]
    /\ UNCHANGED <<now, runs, jobs, instances, pools, default_pool_id, lock, inflight>>
    /\ UNCHANGED <<svcVars, cliVars, fnVars>>

\* lines 65-66: finally: the id leaves the in-flight set
Finish(p) ==
    /\ pc[p] \in {"committed", "raised"}
    /\ inflight' = inflight \ {loc[p].job_id}
    /\ pc' = [pc EXCEPT ![p] = "idle"]
    /\ loc' = [loc EXCEPT ![p] = InitLoc]
    /\ UNCHANGED <<now, runs, jobs, instances, pools, default_pool_id, lock>>
    /\ UNCHANGED <<svcVars, cliVars, fnVars>>

\* an await inside _process_job raises something the code does not catch:
\* the session rolls back and the exception reaches the finally
Raise(p) ==
    /\ pc[p] \in InProcessJob
    /\ pc' = [pc EXCEPT ![p] = "raised"]
    /\ loc' = [loc EXCEPT ![p] = [InitLoc EXCEPT !.job_id = loc[p].job_id]]
    /\ UNCHANGED <<now, runs, jobs, instances, pools, default_pool_id, lock, inflight>>
    /\ UNCHANGED <<svcVars, cliVars, fnVars>>

\* ---- _process_job / _process_submitted_job ------------------------------

\* lines 70-98: the job and its run are loaded; when the project has no
\* default pool the pools of the project are listed and the last one that is
\* named "default" is taken
LastDefaultPool ==
    LET named == {k \in 1..Len(pools) : pools[k].name = DEFAULT_POOL_NAME}
    IN IF named = {} THEN NoPool ELSE CHOOSE k \in named : \A m \in named : m <= k

LoadRun(p) ==
    /\ pc[p] = "load"
    /\ IF default_pool_id # NoPool
       THEN /\ loc' = [loc EXCEPT ![p].pool = default_pool_id]
            /\ pc' = [pc EXCEPT ![p] = "read"]
       ELSE IF LastDefaultPool # NoPool
       THEN /\ loc' = [loc EXCEPT ![p].pool = LastDefaultPool, ![p].set_default = TRUE]
            /\ pc' = [pc EXCEPT ![p] = "read"]
       ELSE /\ pc' = [pc EXCEPT ![p] = "create_pool"]
            /\ UNCHANGED loc
    /\ UNCHANGED <<now, runs, jobs, instances, pools, default_pool_id, lock, inflight>>
    /\ UNCHANGED <<svcVars, cliVars, fnVars>>

\* lines 99-109: no pool was found: a pool named "default" is inserted and
\* committed, and becomes the project's default pool at the next commit
CreatePool(p) ==
    /\ pc[p] = "create_pool"
    /\ pools' = Append(pools, [name |-> DEFAULT_POOL_NAME])
    /\ loc' = [loc EXCEPT ![p].pool = Len(pools) + 1, ![p].set_default = TRUE]
    /\ pc' = [pc EXCEPT ![p] = "read"]
    /\ UNCHANGED <<now, runs, jobs, instances, default_pool_id, lock, inflight>>
    /\ UNCHANGED <<svcVars, cliVars, fnVars>>

\* lines 111-115: the name of the pool that is searched
RunPoolName(p) ==
    LET profile == runs[RunOf(loc[p].job_id)]
    IN IF profile.pool_name = "None" THEN pools[loc[p].pool].name ELSE profile.pool_name

\* lines 119-122: the READY instances of the pool that fit the run
ReadPoolInstances(p) ==
    /\ pc[p] = "read"
    /\ loc' = [loc EXCEPT ![p].relevant =
                 filter_pool_instances(get_pool_instances(RunPoolName(p)),
                                       runs[RunOf(loc[p].job_id)], "READY")]
    /\ pc' = [pc EXCEPT ![p] = "decide"]
    /\ UNCHANGED <<now, runs, jobs, instances, pools, default_pool_id, lock, inflight>>
    /\ UNCHANGED <<svcVars, cliVars, fnVars>>

\* the pending write of line 109, flushed by every commit of the session
CommittedDefaultPool(p) ==
    IF loc[p].set_default THEN loc[p].pool ELSE default_pool_id

\* the back-reference is set and the status is left as it was
ClaimedInstanceRow_StatusKept(i, j) ==
    [instances[i] EXCEPT !.job = j]

\* lines 130-131: the instance row written by the reuse path
ClaimedInstanceRow(i, j) ==
    [instances[i] EXCEPT !.status = "BUSY", !.job = j]

\* the status is set and the provisioning data of the instance is not copied
ClaimedJobRow_NoData(i, j) ==
    [jobs[j] EXCEPT !.status = "PROVISIONING"]

\* lines 134-135: the job row written by the reuse path
ClaimedJobRow(i, j) ==
    [jobs[j] EXCEPT !.job_provisioning_data = instances[i].job_provisioning_data,
                    !.status = "PROVISIONING"]

\* the job fails without an error code
NoCapacityJobRow_NoErrorCode(j) ==
    [jobs[j] EXCEPT !.status = "FAILED"]

\* lines 143-144 and 192-193: the job row of a job that found no capacity
NoCapacityJobRow(j) ==
    [jobs[j] EXCEPT !.status = "FAILED",
                    !.error_code = "FAILED_TO_START_DUE_TO_NO_CAPACITY"]

\* the status is set and the provisioning data is not stored
ProvisionedJobRow_NoData(p) ==
    [jobs[loc[p].job_id] EXCEPT !.status = "PROVISIONING"]

\* lines 166-168: the job row of a job for which an instance was launched
ProvisionedJobRow(p) ==
    [jobs[loc[p].job_id] EXCEPT
        !.job_provisioning_data = [loc[p].result.pdata EXCEPT !.pool_id = loc[p].pool],
        !.status = "PROVISIONING"]

\* lines 125-140: an instance of the pool is reused
ClaimInstance(p) ==
    /\ pc[p] = "decide"
    /\ loc[p].relevant # {}
    /\ LET i == FirstByName(loc[p].relevant)
           j == loc[p].job_id
       IN /\ instances' = [instances EXCEPT ![i] = ClaimedInstanceRow(i, j)]
          /\ jobs' = [jobs EXCEPT ![j] = ClaimedJobRow(i, j)]
    /\ default_pool_id' = CommittedDefaultPool(p)
    /\ pc' = [pc EXCEPT ![p] = "committed"]
    /\ UNCHANGED <<now, runs, pools, lock, inflight, loc>>
    /\ UNCHANGED <<svcVars, cliVars, fnVars>>

\* lines 142-147: nothing to reuse and the profile forbids creation
FailReuse(p) ==
    /\ pc[p] = "decide"
    /\ loc[p].relevant = {}
    /\ runs[RunOf(loc[p].job_id)].creation_policy = "reuse"
    /\ jobs' = [jobs EXCEPT ![loc[p].job_id] = NoCapacityJobRow(loc[p].job_id)]
    /\ default_pool_id' = CommittedDefaultPool(p)
    /\ pc' = [pc EXCEPT ![p] = "committed"]
    /\ UNCHANGED <<now, runs, instances, pools, lock, inflight, loc>>
    /\ UNCHANGED <<svcVars, cliVars, fnVars>>

\* lines 150-163, 207-217: _run_job asks the backends for offers; a
\* BackendError there makes it return (None, None)
GetOffers(p) ==
    /\ pc[p] = "decide"
    /\ loc[p].relevant = {}
    /\ runs[RunOf(loc[p].job_id)].creation_policy # "reuse"
    /\ \/ /\ loc' = [loc EXCEPT ![p].offers_queried = TRUE]
          /\ pc' = [pc EXCEPT ![p] = "commit"]
       \/ \E l \in OfferLists :
          /\ loc' = [loc EXCEPT ![p].offers_queried = TRUE, ![p].offers = l, ![p].oi = 1]
          /\ pc' = [pc EXCEPT ![p] = IF l = <<>> THEN "commit" ELSE "run_job"]
    /\ UNCHANGED <<now, runs, jobs, instances, pools, default_pool_id, lock, inflight>>
    /\ UNCHANGED <<svcVars, cliVars, fnVars>>

\* lines 252-265: the provisioning data of an instance launched from offer o
LaunchedPdata(p, o) ==
    [kind |-> "launched", id |-> loc[p].job_id * (MaxOffers + 1) + o, pool_id |-> loc[p].pool]

\* the first BackendError ends the walk
AfterBackendError_Abort(p) ==
    "commit"

\* lines 239-250, 268: where the walk goes after a BackendError of run_job:
\* on to the next offer, or out of the loop after the last one
AfterBackendError(p) ==
    IF loc[p].oi = Len(loc[p].offers) THEN "commit" ELSE "run_job"

\* lines 219-268: one turn of the loop over the offers: run_job is called on
\* the current offer; a BackendError, be it a passing one (quota, capacity) or
\* a fatal one (credentials, malformed request), moves on to the next offer, a
\* launched instance ends the walk
RunJobCall(p) ==
    /\ pc[p] = "run_job"
    /\ LET o == loc[p].offers[loc[p].oi]
       IN \/ /\ loc' = [loc EXCEPT ![p].calls = Append(@, o),
                                   ![p].result = [pdata |-> LaunchedPdata(p, o), offer |-> o]]
             /\ pc' = [pc EXCEPT ![p] = "commit"]
          \/ \E is_fatal \in BOOLEAN :
             /\ loc' = [loc EXCEPT ![p].calls = Append(@, o), ![p].oi = @ + 1,
                                   ![p].fatal = @ \/ is_fatal]
             /\ pc' = [pc EXCEPT ![p] = AfterBackendError(p)]
    /\ UNCHANGED <<now, runs, jobs, instances, pools, default_pool_id, lock, inflight>>
    /\ UNCHANGED <<svcVars, cliVars, fnVars>>

\* lines 170-183: the record of the instance that was launched for the job
NewInstance(p) ==
    LET j == loc[p].job_id
    IN [name |-> JobName(j), pool |-> loc[p].pool, status |-> "BUSY", job |-> j,
        cpus |-> runs[RunOf(j)].cpus,
        job_provisioning_data |-> [loc[p].result.pdata EXCEPT !.pool_id = loc[p].pool],
        price |-> OfferPrice(loc[p].result.offer),
        termination_policy |-> runs[RunOf(j)].termination_policy,
        termination_idle_time |-> 300]

\* the job is always left PENDING, whatever the retry policy says
FailedProvisionJobRow_AlwaysPending(j) ==
    [jobs[j] EXCEPT !.status = "PENDING"]

\* lines 186-193: the job row of a job whose provisioning failed
FailedProvisionJobRow(j) ==
    IF is_retry_active(j)
    THEN [jobs[j] EXCEPT !.status = "PENDING"]
    ELSE NoCapacityJobRow(j)

\* an instance row is written for the offer that was tried last
InstancesAfterFailure_OneMore(p) ==
    Append(instances, NewInstance(p))

\* lines 185-193: a provisioning that failed writes no instance row
InstancesAfterFailure(p) ==
    instances

\* lines 164-195: the outcome of _run_job is written and committed
CommitProvision(p) ==
    /\ pc[p] = "commit"
    /\ LET j == loc[p].job_id
       IN IF loc[p].result.pdata # NoPdata /\ loc[p].result.offer # 0
          THEN /\ jobs' = [jobs EXCEPT ![j] = ProvisionedJobRow(p)]
               /\ instances' = Append(instances, NewInstance(p))
          ELSE /\ jobs' = [jobs EXCEPT ![j] = FailedProvisionJobRow(j)]
               /\ instances' = InstancesAfterFailure(p)
    /\ default_pool_id' = CommittedDefaultPool(p)
    /\ pc' = [pc EXCEPT ![p] = "committed"]
    /\ UNCHANGED <<now, runs, pools, lock, inflight, loc>>
    /\ UNCHANGED <<svcVars, cliVars, fnVars>>

\* time passes
Tick ==
    /\ now < MaxTime
    /\ now' = now + 1
    /\ UNCHANGED <<runs, jobs, instances, pools, default_pool_id, lock, inflight, pc, loc>>
    /\ UNCHANGED <<svcVars, cliVars, fnVars>>

Next ==
    \/ \E p \in Procs : AcquireLock(p)
    \/ \E p \in Procs : SelectJob(p)
    \/ \E p \in Procs : LeaveClaimTx(p)
    \/ \E p \in Procs : LeaveClaimTxRaises(p)
    \/ \E p \in Procs : LoadRun(p)
    \/ \E p \in Procs : CreatePool(p)
    \/ \E p \in Procs : ReadPoolInstances(p)
    \/ \E p \in Procs : ClaimInstance(p)
    \/ \E p \in Procs : FailReuse(p)
    \/ \E p \in Procs : GetOffers(p)
    \/ \E p \in Procs : RunJobCall(p)
    \/ \E p \in Procs : CommitProvision(p)
    \/ \E p \in Procs : Raise(p)
    \/ \E p \in Procs : Finish(p)
    \/ Tick

Spec == Init /\ [][Next]_vars

\* one invocation of process_submitted_jobs
Invocation(p) ==
    \/ AcquireLock(p) \/ SelectJob(p) \/ LeaveClaimTx(p) \/ LeaveClaimTxRaises(p)
    \/ LoadRun(p) \/ CreatePool(p) \/ ReadPoolInstances(p) \/ ClaimInstance(p)
    \/ FailReuse(p) \/ GetOffers(p) \/ RunJobCall(p) \/ CommitProvision(p)
    \/ Raise(p) \/ Finish(p)

\* the background scheduler starts process_submitted_jobs again and again, the
\* event loop runs every coroutine that can run, and time passes
FairSpec ==
    /\ Init /\ [][Next]_vars
    /\ WF_vars(Tick)
    /\ \A p \in Procs : WF_vars(Invocation(p))

\* the reuse path of the scheduler, without failures
NextPick ==
    \/ \E p \in Procs : AcquireLock(p)
    \/ \E p \in Procs : SelectJob(p)
    \/ \E p \in Procs : LeaveClaimTx(p)
    \/ \E p \in Procs : LoadRun(p)
    \/ \E p \in Procs : ReadPoolInstances(p)
    \/ \E p \in Procs : ClaimInstance(p)
    \/ \E p \in Procs : FailReuse(p)
    \/ \E p \in Procs : Finish(p)

PickSpec == InitPick /\ [][NextPick]_vars

\* the scheduler at work on the jobs of one run
SiblingSpec == InitSiblings /\ [][Next]_vars

TypeOK ==
    /\ now \in 0..MaxTime
    /\ inflight \subseteq Jobs
    /\ lock \in Procs \cup {NoProc}
    /\ \A j \in Jobs : jobs[j].status \in {"SUBMITTED", "PROVISIONING", "PENDING", "FAILED"}

\* the scheduler before its first invocation, with nothing to reuse
IdleScheduler ==
    /\ now = 0
    /\ runs = [r \in Jobs |-> [creation_policy |-> "reuse", retry |-> FALSE,
                                pool_name |-> "None",
                                termination_policy |-> "destroy-after-idle",
                                termination_idle_time |-> 300,
                                cpus |-> 2]]
    /\ jobs = [j \in Jobs |-> NewJobRow(j, 0)]
    /\ instances = <<>>
    /\ default_pool_id = NoPool
    /\ lock = NoProc
    /\ inflight = {}
    /\ pc = [p \in Procs |-> "idle"]
    /\ loc = [p \in Procs |-> InitLoc]

\* ---- services/runs.py: run_model_to_run ----------------------------------

\* a JobModel row of a run
JobModelRow(job_num, submission_num, status) ==
    [job_num |-> job_num, submission_num |-> submission_num, status |-> status,
     error_code |-> "None", job_provisioning_data |-> NoPdata]

\* line 428, sorted(run_model.jobs, key=lambda j: (j.job_num, j.submission_num)):
\* the positions of run_model.jobs in sorted order (sorted is stable)
KeyBefore(js, a, b) ==
    \/ js[a].job_num < js[b].job_num
    \/ js[a].job_num = js[b].job_num /\ js[a].submission_num < js[b].submission_num
    \/ /\ js[a].job_num = js[b].job_num
       /\ js[a].submission_num = js[b].submission_num
       /\ a < b

SortedJobs(js) ==
    [i \in 1..Len(js) |->
        CHOOSE a \in 1..Len(js) :
            Cardinality({b \in 1..Len(js) : KeyBefore(js, b, a)}) = i - 1]

\* line 429, itertools.groupby(run_jobs) without a key function: consecutive
\* elements that compare equal form one group, and two JobModel objects are
\* equal only when they are the same row
SameGroup(a, b) == a = b

RECURSIVE groupby(_)
groupby(order) ==
    IF order = <<>> THEN <<>>
    ELSE LET rest == groupby(Tail(order))
         IN IF rest # <<>> /\ SameGroup(Head(order), Head(rest)[1])
            THEN <<(<<Head(order)>> \o Head(rest))>> \o Tail(rest)
            ELSE <<(<<Head(order)>>)>> \o rest

\* job_model_to_job_submission of the row at position a
job_model_to_job_submission(js, a) ==
    [id |-> a, submission_num |-> js[a].submission_num, status |-> js[a].status]

\* lines 461-465
get_run_status(run_jobs) ==
    LET job == run_jobs[1]
    IN IF Len(job.job_submissions) = 0 THEN "SUBMITTED"
       ELSE job.job_submissions[Len(job.job_submissions)].status

\* lines 425-458: one Job per group, with the submissions of the group
run_model_to_run(run_model) ==
    LET js == run_model.jobs
        groups == groupby(SortedJobs(js))
        run_jobs == [g \in 1..Len(groups) |->
                        [job_num |-> js[groups[g][1]].job_num,
                         job_submissions |->
                             [k \in 1..Len(groups[g]) |->
                                 job_model_to_job_submission(js, groups[g][k])]]]
        first == run_jobs[1].job_submissions
    IN [status |-> get_run_status(run_jobs),
        latest_job_submission |-> first[Len(first)],
        jobs |-> run_jobs]

\* A run whose jobs have been submitted up to MaxSubmissions times: every
\* submission but the last of a job has failed, and the relationship
\* run_model.jobs lists the rows in any order.
SubmissionKeys(n_subs) ==
    {key \in (0..(MaxRunJobs - 1)) \X (0..(MaxSubmissions - 1)) :
        key[1] + 1 \in DOMAIN n_subs /\ key[2] < n_subs[key[1] + 1]}

InitConv ==
    /\ \E n_jobs \in 1..MaxRunJobs :
       \E n_subs \in [1..n_jobs -> 1..MaxSubmissions] :
       \E latest \in [1..n_jobs -> {"SUBMITTED", "RUNNING", "DONE", "FAILED"}] :
       LET keys == SubmissionKeys(n_subs)
       IN \E order \in {f \in [1..Cardinality(keys) -> keys] : Injective(f)} :
             run_models =
                 <<[run_name |-> 1, deleted |-> FALSE, status |-> "SUBMITTED",
                    jobs |-> [a \in 1..Cardinality(keys) |->
                                 JobModelRow(order[a][1], order[a][2],
                                     IF order[a][2] + 1 = n_subs[order[a][1] + 1]
                                     THEN latest[order[a][1] + 1] ELSE "FAILED")]]>>
    /\ name_lock = NoSubmitter
    /\ sub = [s \in Submitters |-> IdleSubmitter]
    /\ converted = NoRun
    /\ returned = NoReturn
    /\ IdleCli
    /\ IdleFunctions
    /\ IdleScheduler
    /\ pools = <<>>

\* get_run, line 140: the run model that was loaded is converted
ConvertRun ==
    /\ converted = NoRun
    /\ converted' = run_model_to_run(run_models[1])
    /\ UNCHANGED <<run_models, name_lock, sub, returned, cliVars, fnVars>>
    /\ UNCHANGED <<now, runs, jobs, instances, pools, default_pool_id, lock, inflight,
                   pc, loc>>

ConvSpec == InitConv /\ [][ConvertRun]_vars

\* ---- services/runs.py: submit_run ----------------------------------------
\* Every submit_run call is a coroutine of the server: an action is the code
\* between two awaits on the session.

\* the variables of the scheduler but the pools, and of the cli
besideServices ==
    <<now, runs, jobs, instances, default_pool_id, lock, inflight, pc, loc, cliVars,
      fnVars>>

\* f"{run_name_base}-{idx}": the calls draw the same base name
GeneratedName(idx) == NumRunNames + idx

\* the rows of the project with the given name, deleted or not
RunsNamed(n) == {r \in 1..Len(run_models) : run_models[r].run_name = n}

\* line 304-306
ResolvedPool(pool_name) == IF pool_name = "None" THEN DEFAULT_POOL_NAME ELSE pool_name

\* lines 279-302: the call starts; RepoDoesNotExistError and "No backends
\* configured" end it at once
SubmitRun(s) ==
    /\ sub[s].pc = "idle"
    /\ Len(run_models) + Cardinality({t \in Submitters : sub[t].pc # "idle"}) < MaxRuns
    /\ \E run_name \in RunNames \cup {NoName}, pool_name \in {"None", "gpu"},
          n_jobs \in 1..MaxRunJobs, configured \in BOOLEAN :
          sub' = [sub EXCEPT ![s] =
                    IF ~configured THEN [IdleSubmitter EXCEPT !.outcome = "error"]
                    ELSE [IdleSubmitter EXCEPT
                             !.pc = IF run_name = NoName THEN "generate"
                                    ELSE "delete_select",
                             !.run_name = run_name, !.idx = 1,
                             !.runs_names = {run_name} \ {NoName},
                             !.pool_name = pool_name, !.n_jobs = n_jobs]]
    /\ UNCHANGED <<run_models, name_lock, converted, pools, returned>>
    /\ UNCHANGED besideServices

\* line 476: async with lock
GenerateAcquire(s) ==
    /\ sub[s].pc = "generate"
    /\ name_lock = NoSubmitter
    /\ name_lock' = s
    /\ sub' = [sub EXCEPT ![s].pc = "probe"]
    /\ UNCHANGED <<run_models, converted, pools, returned>>
    /\ UNCHANGED besideServices

\* lines 477-486: one get_run of the loop; the lock is released on return
GenerateProbe(s) ==
    /\ sub[s].pc = "probe"
    /\ IF \E r \in RunsNamed(GeneratedName(sub[s].idx)) : ~run_models[r].deleted
       THEN /\ sub' = [sub EXCEPT ![s].idx = @ + 1]
            /\ UNCHANGED name_lock
       ELSE /\ sub' = [sub EXCEPT ![s].run_name = GeneratedName(sub[s].idx),
                                  ![s].pc = "pool_select"]
            /\ name_lock' = NoSubmitter
    /\ UNCHANGED <<run_models, converted, pools, returned>>
    /\ UNCHANGED besideServices

\* delete_runs, lines 397-401: a call of its own, with a list of names
DeleteRuns(s) ==
    /\ sub[s].pc = "idle"
    /\ \E runs_names \in SUBSET {run_models[r].run_name : r \in 1..Len(run_models)} :
          /\ runs_names # {}
          /\ sub' = [sub EXCEPT ![s] = [IdleSubmitter EXCEPT !.pc = "delete_select",
                                                              !.runs_names = runs_names,
                                                              !.delete_only = TRUE]]
    /\ UNCHANGED <<run_models, name_lock, converted, pools, returned>>
    /\ UNCHANGED besideServices

\* the rows that are not deleted
NotDeleted_All(rows) == rows

\* RunModel.deleted == False, lines 95 and 133
NotDeleted(rows) == {r \in rows : ~run_models[r].deleted}

\* get_run, lines 128-140: res.scalar() is the first row of a query that has
\* no order, or None
GetRun ==
    /\ returned = NoReturn
    /\ \E n \in {run_models[r].run_name : r \in 1..Len(run_models)} :
          LET found == NotDeleted(RunsNamed(n))
          IN IF found = {}
             THEN returned' = [call |-> "get_run", rows |-> {}]
             ELSE \E r \in found : returned' = [call |-> "get_run", rows |-> {r}]
    /\ UNCHANGED <<run_models, name_lock, sub, converted, pools>>
    /\ UNCHANGED besideServices

\* list_project_runs, lines 93-120, without a repo_id
ListProjectRuns ==
    /\ returned = NoReturn
    /\ returned' = [call |-> "list_project_runs",
                    rows |-> NotDeleted(1..Len(run_models))]
    /\ UNCHANGED <<run_models, name_lock, sub, converted, pools>>
    /\ UNCHANGED besideServices

\* the answer has been sent to the caller
Respond ==
    /\ returned # NoReturn
    /\ returned' = NoReturn
    /\ UNCHANGED <<run_models, name_lock, sub, converted, pools>>
    /\ UNCHANGED besideServices

\* delete_runs, lines 402-413: the runs with the name are loaded and
\* converted; an unfinished one raises ServerClientError
\* no run is taken for active
active_runs_None(runs_names) == {}

\* lines 408-409: the runs of the names whose status is not finished
active_runs(runs_names) ==
    {r \in 1..Len(run_models) :
        /\ run_models[r].run_name \in runs_names
        /\ run_model_to_run(run_models[r]).status \notin FinishedStatuses}

DeleteSelect(s) ==
    /\ sub[s].pc = "delete_select"
    /\ IF active_runs(sub[s].runs_names) # {}
       THEN sub' = [sub EXCEPT ![s] = [IdleSubmitter EXCEPT
                                         !.outcome = "ServerClientError"]]
       ELSE sub' = [sub EXCEPT ![s].pc = "delete_update"]
    /\ UNCHANGED <<run_models, name_lock, converted, pools, returned>>
    /\ UNCHANGED besideServices

\* the rows are removed from the table
DeletedRunModels_Removed(runs_names) ==
    SelectSeq(run_models, LAMBDA row : row.run_name \notin runs_names)

\* delete_runs, lines 414-421: update ... values(deleted=True)
DeletedRunModels(runs_names) ==
    [r \in 1..Len(run_models) |->
        IF run_models[r].run_name \in runs_names THEN [run_models[r] EXCEPT !.deleted = TRUE]
        ELSE run_models[r]]

\* delete_runs, lines 414-422: the update and its commit
DeleteUpdate(s) ==
    /\ sub[s].pc = "delete_update"
    /\ run_models' = DeletedRunModels(sub[s].runs_names)
    /\ sub' = [sub EXCEPT ![s] = IF sub[s].delete_only
                                 THEN [IdleSubmitter EXCEPT !.outcome = "deleted"]
                                 ELSE [sub[s] EXCEPT !.pc = "pool_select"]]
    /\ UNCHANGED <<name_lock, converted, pools, returned>>
    /\ UNCHANGED besideServices

\* lines 308-313: the pools with the name, of any project
PoolSelect(s) ==
    /\ sub[s].pc = "pool_select"
    /\ sub' = [sub EXCEPT
                 ![s].create_pool = ~\E k \in 1..Len(pools) :
                                        pools[k].name = ResolvedPool(sub[s].pool_name),
                 ![s].pc = "insert"]
    /\ UNCHANGED <<run_models, name_lock, converted, pools, returned>>
    /\ UNCHANGED besideServices

\* lines 314-315: create_pool_model commits the new pool
PoolCreate(s) ==
    /\ sub[s].pc = "insert"
    /\ sub[s].create_pool
    /\ pools' = Append(pools, [name |-> ResolvedPool(sub[s].pool_name)])
    /\ sub' = [sub EXCEPT ![s].create_pool = FALSE]
    /\ UNCHANGED <<run_models, name_lock, converted, returned>>
    /\ UNCHANGED besideServices

\* lines 317-339: the RunModel row with one JobModel row per job
NewRunModel(run_name, n_jobs) ==
    [run_name |-> run_name, deleted |-> FALSE, status |-> "SUBMITTED",
     jobs |-> [k \in 1..n_jobs |-> JobModelRow(k - 1, 0, "SUBMITTED")]]

\* lines 317-344: the rows are committed and the run is returned
InsertRun(s) ==
    /\ sub[s].pc = "insert"
    /\ ~sub[s].create_pool
    /\ LET run_model == NewRunModel(sub[s].run_name, sub[s].n_jobs)
       IN /\ run_models' = Append(run_models, run_model)
          /\ converted' = run_model_to_run(run_model)
    /\ sub' = [sub EXCEPT ![s] = [IdleSubmitter EXCEPT !.outcome = "submitted"]]
    /\ UNCHANGED <<name_lock, pools, returned>>
    /\ UNCHANGED besideServices

\* process_submitted_jobs fails a job of a run for lack of capacity
JobFails(r, k) ==
    /\ run_models[r].jobs[k].status = "SUBMITTED"
    /\ run_models' = [run_models EXCEPT
                        ![r].jobs[k].status = "FAILED",
                        ![r].jobs[k].error_code = "FAILED_TO_START_DUE_TO_NO_CAPACITY"]
    /\ UNCHANGED <<name_lock, sub, converted, pools, returned>>
    /\ UNCHANGED besideServices

InitSvc ==
    /\ IdleServices
    /\ IdleCli
    /\ IdleFunctions
    /\ IdleScheduler
    /\ pools = <<>>

NextSvc ==
    \/ \E s \in Submitters : SubmitRun(s)
    \/ \E s \in Submitters : DeleteRuns(s)
    \/ GetRun
    \/ ListProjectRuns
    \/ Respond
    \/ \E s \in Submitters : GenerateAcquire(s)
    \/ \E s \in Submitters : GenerateProbe(s)
    \/ \E s \in Submitters : DeleteSelect(s)
    \/ \E s \in Submitters : DeleteUpdate(s)
    \/ \E s \in Submitters : PoolSelect(s)
    \/ \E s \in Submitters : PoolCreate(s)
    \/ \E s \in Submitters : InsertRun(s)
    \/ \E r \in 1..Len(run_models) : \E k \in 1..Len(run_models[r].jobs) :
          JobFails(r, k)

SvcSpec == InitSvc /\ [][NextSvc]_vars

\* ---- cli backend/base/runs.py: get_run_heads ------------------------------
\* One get_run_heads call walks the job heads it was given; every access to
\* the storage is a step of its own, and the runner of a job may store its
\* end between two of them.

\* JobStatus.is_unfinished
is_unfinished(status) == status \notin FinishedStatuses

\* the scheduler and the run service
besideCli ==
    <<now, runs, jobs, instances, pools, default_pool_id, lock, inflight, pc, loc,
      svcVars, fnVars>>

\* the job always fails
InterruptedJob_AlwaysFailed(job) ==
    [job EXCEPT !.status = "FAILED", !.error_code = "INTERRUPTED_BY_NO_CAPACITY"]

\* lines 124-130 and 200-206: the job whose request found no capacity
InterruptedJob(job) ==
    IF job.retry_active THEN [job EXCEPT !.status = "PENDING"]
    ELSE [job EXCEPT !.status = "FAILED", !.error_code = "INTERRUPTED_BY_NO_CAPACITY"]

\* lines 137-138 and 211-212: the job whose instance was terminated
TerminatedJob(job) ==
    [job EXCEPT !.status = "FAILED", !.error_code = "INSTANCE_TERMINATED"]

\* lines 140-154 (_create_run builds the run head of the job head) and
\* 214-215 (_update_run: the status follows a job head that was unfinished on
\* entry, and the job head is appended); the loop goes to the next job head
Fold(g, was_unfinished) ==
    LET head == g.job_heads[g.i]
        run == g.runs_by_id[head.run_name]
        new == IF run = NoRunHead
               THEN [status |-> head.status, job_heads |-> <<head.job_id>>]
               ELSE [status |-> IF was_unfinished THEN head.status ELSE run.status,
                     job_heads |-> Append(run.job_heads, head.job_id)]
    IN [g EXCEPT !.runs_by_id[head.run_name] = new, !.i = g.i + 1, !.pc = "next"]

\* lines 32-51 with 112-131 or 189-207: the next job head; for an unfinished
\* one the job is read and the request head is asked from the compute
NextHead ==
    /\ grh.pc = "next"
    /\ grh.i <= Len(grh.job_heads)
    /\ LET head == grh.job_heads[grh.i]
           job == storage[head.job_id]
       IN IF grh.include_request_heads /\ is_unfinished(head.status)
          THEN \E request \in {"RUNNING", "NO_CAPACITY", "TERMINATED"} :
                  grh' = IF request = "NO_CAPACITY"
                         THEN [grh EXCEPT !.request = request,
                                          !.job = InterruptedJob(job),
                                          !.job_heads[grh.i].status =
                                              InterruptedJob(job).status,
                                          !.pc = "update_job"]
                         ELSE IF request = "TERMINATED"
                         THEN [grh EXCEPT !.request = request, !.job = job,
                                          !.pc = "reread"]
                         ELSE Fold([grh EXCEPT !.request = request, !.job = job], TRUE)
          ELSE grh' = Fold([grh EXCEPT !.request = "None", !.job = NoJobRecord],
                           is_unfinished(head.status))
    /\ UNCHANGED storage
    /\ UNCHANGED besideCli

\* lines 135-136 and 209-210: the job is read again
Reread ==
    /\ grh.pc = "reread"
    /\ LET job == storage[grh.job_heads[grh.i].job_id]
       IN IF is_unfinished(job.status)
          THEN grh' = [grh EXCEPT !.job = TerminatedJob(job),
                                  !.job_heads[grh.i].status = TerminatedJob(job).status,
                                  !.pc = "update_job"]
          ELSE grh' = Fold([grh EXCEPT !.job = job], TRUE)
    /\ UNCHANGED storage
    /\ UNCHANGED besideCli

\* lines 131, 139, 207 and 213: jobs.update_job stores the job as it was changed
UpdateJob ==
    /\ grh.pc = "update_job"
    /\ storage' = [storage EXCEPT ![grh.job_heads[grh.i].job_id] = grh.job]
    /\ grh' = Fold(grh, TRUE)
    /\ UNCHANGED besideCli

\* lines 52-53: the run heads are returned
ReturnHeads ==
    /\ grh.pc = "next"
    /\ grh.i > Len(grh.job_heads)
    /\ grh' = [grh EXCEPT !.pc = "done"]
    /\ UNCHANGED storage
    /\ UNCHANGED besideCli

\* the runner of a job stores that the job is done
JobFinishes(h) ==
    /\ is_unfinished(storage[h].status)
    /\ storage' = [storage EXCEPT ![h].status = "DONE"]
    /\ UNCHANGED grh
    /\ UNCHANGED besideCli

\* The call starts with job heads that were listed before: the status of a
\* job head is the stored status or an older, unfinished one.
InitHeads ==
    /\ storage \in [Heads -> [status : {"RUNNING", "DONE"}, error_code : {"None"},
                              retry_active : BOOLEAN]]
    /\ \E same_run \in BOOLEAN, include_request_heads \in BOOLEAN,
          stale \in [Heads -> BOOLEAN] :
          grh = [IdleGetRunHeads EXCEPT
                    !.pc = "next",
                    !.include_request_heads = include_request_heads,
                    !.job_heads =
                        [h \in Heads |->
                            [job_id |-> h,
                             run_name |-> IF same_run THEN 1 ELSE h,
                             status |-> IF stale[h] THEN "RUNNING"
                                        ELSE storage[h].status]]]
    /\ IdleServices
    /\ IdleFunctions
    /\ IdleScheduler
    /\ pools = <<>>

NextHeads ==
    \/ NextHead
    \/ Reread
    \/ UpdateJob
    \/ ReturnHeads
    \/ \E h \in Heads : JobFinishes(h)

HeadsSpec == InitHeads /\ [][NextHeads]_vars

\* ---- cli core/configuration.py: parse ------------------------------------
\* A document is the value of its type key ("absent" when it has none), the
\* set of its other keys, and the value of ide; the values of the other keys
\* are of the declared types.

\* the scheduler, the run service and the run heads
besideFunctions ==
    <<now, runs, jobs, instances, pools, default_pool_id, lock, inflight, pc, loc,
      svcVars, cliVars>>

TypeValues == {"absent", "task", "dev-environment", "none", "service"}
FieldNames == {"commands", "artifacts", "ide", "init", "image", "python", "unknown"}
Documents == [type : TypeValues, fields : SUBSET FieldNames, ide : {"vscode", "pycharm"}]

\* lines 68-71: the members of the union, by the value of the discriminator
KnownTypes == {"dev-environment", "task"}

\* lines 31-41, 56-59 and 62-65: the fields of a model besides type
ModelFields(type) ==
    {"image", "python"} \cup (IF type = "task" THEN {"commands", "artifacts"}
                              ELSE {"ide", "init"})

\* lines 58 and 64: the fields that have no default
RequiredFields(type) == IF type = "task" THEN {"commands"} ELSE {"ide"}

\* the keys that are not fields are dropped (Extra.ignore)
ExtraFields_Ignored(doc) == {}

\* lines 16-18, Extra.forbid: the keys of the document that are not fields
ExtraFields(doc) == doc.fields \ ModelFields(doc.type)

\* lines 43-46: the validator of python raises KeyError when image is set too
convert_python_raises(doc) == "python" \in doc.fields /\ "image" \in doc.fields

\* the validation of the document by the model its type selects
validate_model(doc) ==
    LET missing == RequiredFields(doc.type) \ doc.fields
        bad_ide == doc.type = "dev-environment" /\ "ide" \in doc.fields
                     /\ doc.ide # "vscode"
    IN IF convert_python_raises(doc) THEN [kind |-> "KeyError"]
       ELSE IF missing # {} \/ bad_ide \/ ExtraFields(doc) # {}
       THEN [kind |-> "ValidationError"]
       ELSE [kind |-> "configuration", type |-> doc.type,
             fields |-> doc.fields \cap ModelFields(doc.type)]

\* lines 68-75: DstackConfiguration.parse_obj(data).__root__
parse(doc) ==
    IF doc.type \notin KnownTypes THEN [kind |-> "ValidationError"]
    ELSE validate_model(doc)

InitParse ==
    /\ argument \in Documents
    /\ result = NotCalled
    /\ IdleServices
    /\ IdleCli
    /\ IdleScheduler
    /\ pools = <<>>

Parse ==
    /\ result = NotCalled
    /\ result' = parse(argument)
    /\ UNCHANGED argument
    /\ UNCHANGED besideFunctions

ParseSpec == InitParse /\ [][Parse]_vars

\* ---- server services/encryption: encrypt, decrypt --------------------------
\* As the tests of tests/_internal/server/services/encryption use them: a key
\* is the identity key or an AES key with a secret; a ciphertext is the text
\* "enc:<type of the key>:<payload>", and the payload of an AES key can be
\* opened with the same secret only.

IdentityKey == [type |-> "identity", secret |-> 0]
AESEncryptionKey(secret) == [type |-> "aes", secret |-> secret]
EncryptionKeys == {IdentityKey} \cup {AESEncryptionKey(k) : k \in 1..NumSecrets}
Texts == 1..NumTexts

RECURSIVE KeyListsOfLen(_)
KeyListsOfLen(n) ==
    IF n = 0 THEN {<<>>}
    ELSE {Append(l, key) : l \in KeyListsOfLen(n - 1), key \in EncryptionKeys}

KeyLists == UNION {KeyListsOfLen(n) : n \in 0..MaxKeys}

\* the payload a key makes of a text, and the packed ciphertext
pack_encrypted(key, text) ==
    [prefix |-> "enc", type |-> key.type, secret |-> key.secret, text |-> text]

Ciphertexts == {pack_encrypted(key, text) : key \in EncryptionKeys, text \in Texts}

\* the keys in use: the identity key when none is set
get_encryption_keys(keys) == IF keys = <<>> THEN <<IdentityKey>> ELSE keys

\* encrypt: with the first key
encrypt(keys, plaintext) ==
    pack_encrypted(get_encryption_keys(keys)[1], plaintext)

\* what a key makes of a ciphertext: the text, or a failure
EncryptionError == [ok |-> FALSE, text |-> 0]

key_decrypt(key, ciphertext) ==
    IF key.type = ciphertext.type /\ key.secret = ciphertext.secret
    THEN [ok |-> TRUE, text |-> ciphertext.text]
    ELSE EncryptionError

\* only the first key is tried
decrypt_FirstKeyOnly(keys, ciphertext) ==
    key_decrypt(get_encryption_keys(keys)[1], ciphertext)

\* decrypt: the keys are tried in turn, EncryptionError when all have failed
decrypt(keys, ciphertext) ==
    LET used == get_encryption_keys(keys)
        able == {k \in 1..Len(used) : key_decrypt(used[k], ciphertext).ok}
    IN IF able = {} THEN EncryptionError
       ELSE key_decrypt(used[CHOOSE k \in able : \A m \in able : k <= m], ciphertext)

InitEnc ==
    /\ argument \in [keys : KeyLists, plaintext : Texts, ciphertext : Ciphertexts]
    /\ result = NotCalled
    /\ IdleServices
    /\ IdleCli
    /\ IdleScheduler
    /\ pools = <<>>

\* encrypt(plaintext) under the keys of the context
Encrypt ==
    /\ result = NotCalled
    /\ result' = [kind |-> "encrypted",
                  ciphertext |-> encrypt(argument.keys, argument.plaintext),
                  decrypted |-> EncryptionError]
    /\ UNCHANGED argument
    /\ UNCHANGED besideFunctions

\* decrypt of what encrypt returned, under the same keys
DecryptEncrypted ==
    /\ result # NotCalled
    /\ result.kind = "encrypted"
    /\ result' = [result EXCEPT !.kind = "round trip",
                                !.decrypted = decrypt(argument.keys, result.ciphertext)]
    /\ UNCHANGED argument
    /\ UNCHANGED besideFunctions

\* decrypt(ciphertext) of a ciphertext that was stored before
Decrypt ==
    /\ result = NotCalled
    /\ result' = [kind |-> "decrypted", ciphertext |-> argument.ciphertext,
                  decrypted |-> decrypt(argument.keys, argument.ciphertext)]
    /\ UNCHANGED argument
    /\ UNCHANGED besideFunctions

NextEnc == Encrypt \/ DecryptEncrypted \/ Decrypt

EncSpec == InitEnc /\ [][NextEnc]_vars

\* ---- properties ----------------------------------------------------------

\* the invocations that hold a job id between its selection and the finally
Holding == {"leave_tx", "raised"} \cup InProcessJob

\* C1: two jobs are never both left in PROVISIONING with the provisioning
\* data of the same pool instance: of two scheduling steps that saw the same
\* READY instance, only one claims it.
C1_NoDoubleClaim ==
    \A j1, j2 \in Jobs :
        (/\ j1 # j2
         /\ jobs[j1].status = "PROVISIONING"
         /\ jobs[j2].status = "PROVISIONING"
         /\ jobs[j1].job_provisioning_data.kind = "pool")
        => jobs[j1].job_provisioning_data # jobs[j2].job_provisioning_data

\* C2: at any time at most one invocation of process_submitted_jobs holds a
\* given job id, so no two invocations run _process_job for the same job.
C2_OneInvocationPerJob ==
    \A p, q \in Procs :
        (p # q /\ pc[p] \in Holding /\ pc[q] \in Holding)
        => loc[p].job_id # loc[q].job_id

\* C2 witness: an invocation has just selected a job while another invocation
\* is inside _process_job for a job that is still SUBMITTED.
C2_Witness ==
    \E p, q \in Procs :
        /\ p # q
        /\ pc[p] \in InProcessJob
        /\ jobs[loc[p].job_id].status = "SUBMITTED"
        /\ pc[q] = "leave_tx"

\* C3: every id in SUBMITTED_PROCESSING_JOBS_IDS belongs to an invocation
\* that is still running and will reach its finally: no id is left behind by
\* an invocation that has ended.
C3_NoLeakedId ==
    \A j \in inflight : \E p \in Procs : pc[p] \in Holding /\ loc[p].job_id = j

\* C4: every job in PROVISIONING has job_provisioning_data.
C4_ProvisioningHasData ==
    \A j \in Jobs :
        jobs[j].status = "PROVISIONING" => jobs[j].job_provisioning_data # NoPdata

\* C4 witness: one job is PROVISIONING on a reused pool instance and another
\* one on a newly launched instance.
C4_Witness ==
    \E j1, j2 \in Jobs :
        /\ jobs[j1].status = "PROVISIONING"
        /\ jobs[j1].job_provisioning_data.kind = "pool"
        /\ jobs[j2].status = "PROVISIONING"
        /\ jobs[j2].job_provisioning_data.kind = "launched"

\* C5: an instance whose job back-reference is set is BUSY, or its job is in a
\* finished status.
C5_BackRefMeansBusy ==
    \A i \in 1..Len(instances) :
        instances[i].job # NoJob
        => \/ instances[i].status = "BUSY"
           \/ jobs[instances[i].job].status \in FinishedStatuses

\* C5 witness: a pool instance was claimed for a job and a new instance was
\* created for another job.
C5_Witness ==
    \E i, k \in 1..Len(instances) :
        /\ i <= NumPoolInstances
        /\ instances[i].job # NoJob
        /\ k > NumPoolInstances
        /\ instances[k].job # NoJob
        /\ instances[k].job # instances[i].job

\* C6: a scheduling step that found a READY instance of the pool fit for the
\* run leaves, at its commit, one of the instances it found BUSY and bound to
\* the job, the job PROVISIONING with the provisioning data of that instance,
\* and has asked no backend for offers and called no run_job.
C6_ReuseStep ==
    [][\A p \in Procs :
        (pc[p] = "decide" /\ loc[p].relevant # {} /\ pc'[p] = "committed")
        => /\ \E i \in loc[p].relevant :
                /\ instances'[i].status = "BUSY"
                /\ instances'[i].job = loc[p].job_id
                /\ jobs'[loc[p].job_id].job_provisioning_data
                       = instances'[i].job_provisioning_data
           /\ jobs'[loc[p].job_id].status = "PROVISIONING"
           /\ Len(instances') = Len(instances)
           /\ ~loc'[p].offers_queried
           /\ loc'[p].calls = <<>>]_vars

\* C6 witness: a scheduling step has committed the reuse of a pool instance.
C6_Witness ==
    \E p \in Procs :
        /\ pc[p] = "committed"
        /\ loc[p].relevant # {}
        /\ jobs[loc[p].job_id].status = "PROVISIONING"

\* C7: a scheduling step of a run with creation_policy reuse that found no
\* READY instance fit for the run ends with the job FAILED with
\* FAILED_TO_START_DUE_TO_NO_CAPACITY, no instance bound to the job, no offer
\* query and no run_job call.
C7_ReuseOnlyFails ==
    \A p \in Procs :
        (/\ pc[p] = "committed"
         /\ loc[p].relevant = {}
         /\ runs[RunOf(loc[p].job_id)].creation_policy = "reuse")
        => /\ jobs[loc[p].job_id].status = "FAILED"
           /\ jobs[loc[p].job_id].error_code = "FAILED_TO_START_DUE_TO_NO_CAPACITY"
           /\ jobs[loc[p].job_id].job_provisioning_data = NoPdata
           /\ \A i \in 1..Len(instances) : instances[i].job # loc[p].job_id
           /\ ~loc[p].offers_queried
           /\ loc[p].calls = <<>>

\* C7 witness: a reuse-only job has been failed while the pool held a READY
\* instance that is too small for it.
C7_Witness ==
    \E p \in Procs :
        /\ pc[p] = "committed"
        /\ loc[p].relevant = {}
        /\ runs[RunOf(loc[p].job_id)].creation_policy = "reuse"
        /\ \E i \in 1..Len(instances) : instances[i].status = "READY"

\* C8: when nothing could be reused, creation is allowed, every run_job failed
\* (or there was no offer) and retry is not active, the commit of the
\* scheduling step leaves the job FAILED with
\* FAILED_TO_START_DUE_TO_NO_CAPACITY and creates no instance.
C8_NoCapacityFails ==
    [][\A p \in Procs :
        (/\ pc[p] = "commit"
         /\ pc'[p] = "committed"
         /\ loc[p].relevant = {}
         /\ runs[RunOf(loc[p].job_id)].creation_policy # "reuse"
         /\ loc[p].result = NoResult
         /\ loc[p].calls = loc[p].offers
         /\ ~is_retry_active(loc[p].job_id))
        => /\ jobs'[loc[p].job_id].status = "FAILED"
           /\ jobs'[loc[p].job_id].error_code = "FAILED_TO_START_DUE_TO_NO_CAPACITY"
           /\ instances' = instances]_vars

\* C8 witness: a job has been failed after run_job failed on every offer.
C8_Witness ==
    \E p \in Procs :
        /\ pc[p] = "committed"
        /\ loc[p].offers_queried
        /\ Len(loc[p].calls) = MaxOffers
        /\ loc[p].result = NoResult
        /\ jobs[loc[p].job_id].status = "FAILED"

\* C9: a job left PENDING by a failed provisioning is examined again and ends
\* FAILED once its retry window has elapsed.
C9_PendingEventuallyFails ==
    \A j \in Jobs : (jobs[j].status = "PENDING") ~> (jobs[j].status = "FAILED")

\* C10: _run_job calls run_job on the offers in the order of the list, once
\* each; after a BackendError the next offer is tried; the walk ends at the
\* first launched instance, which is returned with its offer, and returns
\* nothing only after every offer was tried.
C10_OfferWalk ==
    \A p \in Procs :
        pc[p] \in {"run_job", "commit", "committed"}
        => /\ Len(loc[p].calls) <= Len(loc[p].offers)
           /\ \A k \in 1..Len(loc[p].calls) : loc[p].calls[k] = loc[p].offers[k]
           /\ pc[p] = "run_job"
                => loc[p].result = NoResult /\ Len(loc[p].calls) < Len(loc[p].offers)
           /\ loc[p].result # NoResult
                => /\ loc[p].calls # <<>>
                   /\ loc[p].result.offer = loc[p].calls[Len(loc[p].calls)]
                   /\ loc[p].result.pdata # NoPdata
           /\ (pc[p] # "run_job" /\ loc[p].result = NoResult)
                => loc[p].calls = loc[p].offers

\* C10 witness: run_job failed on the first offer and launched an instance on
\* the second one.
C10_Witness ==
    \E p \in Procs :
        /\ pc[p] = "commit"
        /\ Len(loc[p].calls) = 2
        /\ loc[p].result # NoResult
        /\ loc[p].result.offer = loc[p].offers[2]

\* C11: once run_job has failed with a fatal backend error, no later offer is
\* tried for the job, and the scheduling step records the job as FAILED.
C11_FatalAborts ==
    [][\A p \in Procs :
        loc[p].fatal
        => /\ Len(loc'[p].calls) <= Len(loc[p].calls)
           /\ (pc[p] = "commit" /\ pc'[p] = "committed")
                => jobs'[loc[p].job_id].status = "FAILED"]_vars

\* C12: from the moment run_job has returned a launched instance, the store
\* holds an instance record with the identifier of that instance, so that a
\* crash at any later point leaves the launched instance known to the store.
C12_LaunchPersisted ==
    \A p \in Procs :
        loc[p].result # NoResult
        => \E i \in 1..Len(instances) :
              /\ instances[i].job_provisioning_data.kind = "launched"
              /\ instances[i].job_provisioning_data.id = loc[p].result.pdata.id

\* the pools of the project that are named "default"
DefaultPools == {k \in 1..Len(pools) : pools[k].name = DEFAULT_POOL_NAME}

\* C19: the project never owns two pools named "default", and owns one as soon
\* as a scheduling step has passed its default pool check.
C19_OneDefaultPool ==
    /\ Cardinality(DefaultPools) <= 1
    /\ (\E p \in Procs : pc[p] \in {"read", "decide", "run_job", "commit", "committed"})
          => Cardinality(DefaultPools) = 1

\* the statuses of a job that has not reached PROVISIONING yet
BeforeProvisioning == {"SUBMITTED", "PENDING"}

\* C18: a job with job_num > 0 is not PROVISIONING, and no instance is bound
\* to it, while a job of the same run with a lower job_num has not reached
\* PROVISIONING.
C18_SiblingsInOrder ==
    \A j, k \in Jobs :
        (/\ jobs[j].run_id = jobs[k].run_id
         /\ jobs[k].job_num < jobs[j].job_num
         /\ jobs[k].status \in BeforeProvisioning)
        => /\ jobs[j].status # "PROVISIONING"
           /\ \A i \in 1..Len(instances) : instances[i].job # j

\* the name of the pool resolved for the run of job j
ResolvedPoolName(j) ==
    IF runs[RunOf(j)].pool_name = "None" THEN DEFAULT_POOL_NAME
    ELSE runs[RunOf(j)].pool_name

\* C20: an instance launched for a job belongs to the pool resolved for the
\* run (profile.pool_name, or the default pool), and its provisioning data
\* carries the id of that pool.
C20_NewInstanceInRunPool ==
    \A i \in 1..Len(instances) :
        instances[i].job_provisioning_data.kind = "launched"
        => /\ pools[instances[i].pool].name = ResolvedPoolName(instances[i].job)
           /\ instances[i].job_provisioning_data.pool_id = instances[i].pool

\* instance i comes before instance k by price, then by name
CheaperThenName(i, k) ==
    \/ instances[i].price < instances[k].price
    \/ instances[i].price = instances[k].price /\ instances[i].name <= instances[k].name

\* C13: the step that reuses an instance binds the job to the candidate with
\* the lowest price and, among equal prices, the smallest name, whatever the
\* order of the pool's instance list.
C13_LowestPriceFirst ==
    [][\A p \in Procs :
        (pc[p] = "decide" /\ pc'[p] = "committed" /\ loc[p].relevant # {})
        => \E i \in loc[p].relevant :
              /\ instances'[i].job = loc[p].job_id
              /\ \A k \in loc[p].relevant : CheaperThenName(i, k)]_vars

\* the row of run_model.jobs that holds the latest submission of job job_num
LatestSubmissionOf(js, job_num) ==
    CHOOSE a \in 1..Len(js) :
        /\ js[a].job_num = job_num
        /\ \A b \in 1..Len(js) :
              js[b].job_num = job_num => js[b].submission_num <= js[a].submission_num

\* C15: the Run returned by run_model_to_run has the status of the latest
\* submission (highest submission_num) of the job with job_num 0, and its
\* latest_job_submission is that submission.
C15_StatusOfLatestSubmission ==
    converted # NoRun
    => LET js == run_models[1].jobs
           a == LatestSubmissionOf(js, 0)
       IN /\ converted.status = js[a].status
          /\ converted.latest_job_submission = job_model_to_job_submission(js, a)

\* C14: submit_run with the name of finished runs marks every run of that name
\* deleted and removes none (a deleted run stays in the table, deleted, with
\* its name), then adds a run of the same name in SUBMITTED whose jobs are all
\* SUBMITTED with submission_num 0, no error_code and no provisioning data.
C14_ResubmitName ==
    [][/\ Len(run_models') >= Len(run_models)
       /\ \A r \in 1..Len(run_models) :
             /\ run_models'[r].run_name = run_models[r].run_name
             /\ run_models[r].deleted => run_models'[r].deleted
       /\ \A s \in Submitters :
             /\ (sub[s].pc = "delete_update" /\ sub'[s].pc # "delete_update")
                => /\ Len(run_models') = Len(run_models)
                   /\ \A r \in 1..Len(run_models) :
                         run_models'[r] =
                             IF run_models[r].run_name \in sub[s].runs_names
                             THEN [run_models[r] EXCEPT !.deleted = TRUE]
                             ELSE run_models[r]
             /\ (sub[s].pc = "insert" /\ sub'[s].pc = "idle" /\ sub[s].run_name \in RunNames)
                => /\ Len(run_models') = Len(run_models) + 1
                   /\ LET new == run_models'[Len(run_models')]
                      IN /\ new.run_name = sub[s].run_name
                         /\ ~new.deleted
                         /\ new.status = "SUBMITTED"
                         /\ converted'.status = "SUBMITTED"
                         /\ Len(new.jobs) = sub[s].n_jobs
                         /\ \A k \in 1..Len(new.jobs) :
                               /\ new.jobs[k].status = "SUBMITTED"
                               /\ new.jobs[k].submission_num = 0
                               /\ new.jobs[k].error_code = "None"
                               /\ new.jobs[k].job_provisioning_data = NoPdata]_vars

\* a finished run was deleted and a run of the same name was submitted after it
C14_Witness ==
    \E r1, r2 \in 1..Len(run_models) :
        /\ r1 < r2
        /\ run_models[r1].run_name \in RunNames
        /\ run_models[r2].run_name = run_models[r1].run_name
        /\ run_models[r1].deleted
        /\ \A k \in 1..Len(run_models[r1].jobs) : run_models[r1].jobs[k].status = "FAILED"
        /\ ~run_models[r2].deleted
        /\ \A k \in 1..Len(run_models[r2].jobs) : run_models[r2].jobs[k].status = "SUBMITTED"
        /\ \E s \in Submitters : sub[s].outcome = "submitted"

\* the job head at which get_run_heads stands
CurrentHead == grh.job_heads[grh.i]

\* C16: the update_job that follows a NO_CAPACITY request head stores the job
\* as PENDING with its error code unchanged when its retry is active, and as
\* FAILED with INTERRUPTED_BY_NO_CAPACITY otherwise, in _create_run and in
\* _update_run, and the run head takes the status that was stored.
C16_NoCapacityStored ==
    [][(grh.pc = "update_job" /\ grh.request = "NO_CAPACITY" /\ grh'.pc = "next")
       => LET id == CurrentHead.job_id
              run == grh'.runs_by_id[CurrentHead.run_name]
          IN /\ IF storage[id].retry_active
                THEN /\ storage'[id].status = "PENDING"
                     /\ storage'[id].error_code = storage[id].error_code
                ELSE /\ storage'[id].status = "FAILED"
                     /\ storage'[id].error_code = "INTERRUPTED_BY_NO_CAPACITY"
             /\ run.status = storage'[id].status
             /\ run.job_heads[Len(run.job_heads)] = id]_vars

\* _create_run has stored the first job of a run as FAILED for lack of
\* capacity, and _update_run the next job of the run as PENDING
C16_Witness ==
    \E n \in Heads :
        LET run == grh.runs_by_id[n]
        IN /\ run.job_heads = <<1, 2>>
           /\ storage[1].status = "FAILED"
           /\ storage[1].error_code = "INTERRUPTED_BY_NO_CAPACITY"
           /\ storage[2].status = "PENDING"
           /\ storage[2].error_code = "None"
           /\ run.status = "PENDING"

\* C17: the update_job that follows a TERMINATED request head stores the job
\* as PENDING when its retry is active, and as FAILED with INSTANCE_TERMINATED
\* otherwise.
C17_TerminatedStored ==
    [][(grh.pc = "update_job" /\ grh.request = "TERMINATED" /\ grh'.pc = "next")
       => LET id == CurrentHead.job_id
          IN IF storage[id].retry_active
             THEN storage'[id].status = "PENDING"
             ELSE /\ storage'[id].status = "FAILED"
                  /\ storage'[id].error_code = "INSTANCE_TERMINATED"]_vars

\* C28: no step changes the stored status or error_code of a job whose stored
\* status is finished, whatever the job head get_run_heads was given and
\* whatever request status it observed.
C28_FinishedJobKept ==
    [][\A h \in Heads :
          storage[h].status \in FinishedStatuses
          => /\ storage'[h].status = storage[h].status
             /\ storage'[h].error_code = storage[h].error_code]_vars

\* C21: no step removes a run record or changes anything of it but its jobs
\* and its deleted flag, the flag is only ever set, and the rows that get_run
\* and list_project_runs return are rows whose flag is not set.
C21_SoftDeleteOnly ==
    [][/\ Len(run_models') >= Len(run_models)
       /\ \A r \in 1..Len(run_models) :
             /\ [run_models'[r] EXCEPT !.deleted = run_models[r].deleted,
                                       !.jobs = run_models[r].jobs] = run_models[r]
             /\ run_models[r].deleted => run_models'[r].deleted
       /\ (returned = NoReturn /\ returned' # NoReturn)
          => \A r \in returned'.rows :
                r \in 1..Len(run_models) /\ ~run_models[r].deleted]_vars

\* list_project_runs has answered with a run while another run is deleted
C21_Witness ==
    /\ returned.call = "list_project_runs"
    /\ returned.rows # {}
    /\ \E r \in 1..Len(run_models) : run_models[r].deleted /\ r \notin returned.rows

\* the status of a run: that of the latest submission of its first job
RunStatus(r) ==
    run_models[r].jobs[LatestSubmissionOf(run_models[r].jobs, 0)].status

C27_GeneratedNamesDiffer ==
    \A r1, r2 \in 1..Len(run_models) :
        (/\ r1 # r2
         /\ run_models[r1].run_name \notin RunNames
         /\ ~run_models[r1].deleted
         /\ ~run_models[r2].deleted)
        => run_models[r1].run_name # run_models[r2].run_name

\* the invocations whose _process_submitted_job returns in this step
Returning == {p \in Procs : pc[p] # "committed" /\ pc'[p] = "committed"}

\* C25: when _process_submitted_job returns without raising, the job is
\* PROVISIONING, PENDING or FAILED, and it has an error code, which is
\* FAILED_TO_START_DUE_TO_NO_CAPACITY, exactly when it is FAILED.
C25_ReturnLeavesSubmitted ==
    [][\A p \in Returning :
          LET job == jobs'[loc[p].job_id]
          IN /\ job.status \in {"PROVISIONING", "PENDING", "FAILED"}
             /\ job.status = "FAILED"
                => job.error_code = "FAILED_TO_START_DUE_TO_NO_CAPACITY"
             /\ job.status # "FAILED" => job.error_code = "None"]_vars

\* a provisioning that found no offer to launch has returned with the job FAILED
C25_Witness ==
    \E p \in Procs :
        /\ pc[p] = "committed"
        /\ loc[p].offers_queried
        /\ loc[p].result = NoResult
        /\ jobs[loc[p].job_id].status = "FAILED"
        /\ jobs[loc[p].job_id].error_code = "FAILED_TO_START_DUE_TO_NO_CAPACITY"

\* the instance rows that a step changes, and the number of rows it adds
ChangedInstances == {i \in 1..Len(instances) : instances'[i] # instances[i]}
CreatedInstances == Len(instances') - Len(instances)

\* C26: a step changes job and instance rows only when a scheduling step
\* returns; it then changes no job but its own, and changes or creates at
\* most one instance row, which is an instance it saw READY or the new one,
\* bound to its job; when the provisioning failed (the job is left PENDING or
\* FAILED) no instance row is created or changed.
C26_SchedulingFrame ==
    [][/\ CreatedInstances >= 0
       /\ Returning = {} => jobs' = jobs /\ instances' = instances
       /\ \A p \in Returning :
             LET j == loc[p].job_id
             IN /\ \A k \in Jobs \ {j} : jobs'[k] = jobs[k]
                /\ Cardinality(ChangedInstances) + CreatedInstances <= 1
                /\ \A i \in ChangedInstances :
                      i \in loc[p].relevant /\ instances'[i].job = j
                /\ CreatedInstances = 1 => instances'[Len(instances')].job = j
                /\ jobs'[j].status \in {"PENDING", "FAILED"}
                   => ChangedInstances = {} /\ CreatedInstances = 0]_vars

\* a provisioning has failed after another job was given an instance
C26_Witness ==
    \E p \in Procs :
        /\ pc[p] = "committed"
        /\ loc[p].calls # <<>>
        /\ loc[p].result = NoResult
        /\ jobs[loc[p].job_id].status \in {"PENDING", "FAILED"}
        /\ \E k \in Jobs \ {loc[p].job_id} : jobs[k].status = "PROVISIONING"

\* C30: an instance launched for a job carries the termination_policy and the
\* termination_idle_time of the profile of the job's run.
C30_IdleTimeOfProfile ==
    \A i \in 1..Len(instances) :
        instances[i].job_provisioning_data.kind = "launched"
        => /\ instances[i].termination_policy =
                 runs[RunOf(instances[i].job)].termination_policy
           /\ instances[i].termination_idle_time =
                 runs[RunOf(instances[i].job)].termination_idle_time

\* an invocation has just seen the scheduling step of job j raise
RaisedFor(j) == \E p \in Procs : pc[p] = "raised" /\ loc[p].job_id = j

\* C22: a job whose scheduling step raises again and again is eventually
\* FAILED.
C22_RaisingJobFails ==
    \A j \in Jobs : ([]<>RaisedFor(j)) => <>(jobs[j].status = "FAILED")

\* C23: parse yields a configuration only for a document whose type is task
\* or dev-environment, that has commands (task) or ide (dev-environment), and
\* that has no key unknown to that variant; for every other document it
\* raises an error and yields nothing.
C23_ParseAcceptsOnlyValid ==
    result # NotCalled
    => LET doc == argument
           valid ==
               \/ /\ doc.type = "task"
                  /\ "commands" \in doc.fields
                  /\ doc.fields \subseteq {"commands", "artifacts", "image", "python"}
               \/ /\ doc.type = "dev-environment"
                  /\ "ide" \in doc.fields
                  /\ doc.fields \subseteq {"ide", "init", "image", "python"}
       IN /\ result.kind \in {"configuration", "ValidationError", "KeyError"}
          /\ result.kind = "configuration" => valid /\ result.type = doc.type
          /\ ~valid => result.kind # "configuration"

\* a task with its commands is rejected for one key that is not a field
C23_Witness ==
    /\ argument.type = "task"
    /\ argument.fields = {"commands", "unknown"}
    /\ result = [kind |-> "ValidationError"]

\* a configured key that opens the ciphertext
CanDecrypt(key, ciphertext) ==
    /\ key.type = ciphertext.type
    /\ key.type = "aes" => key.secret = ciphertext.secret

\* C24: encrypt packs the text with the first configured key, and with the
\* identity key as enc:identity:<text> when none is configured; decrypt
\* returns the text when a configured key opens the ciphertext and raises
\* EncryptionError only when none does; decrypt(encrypt(x)) = x for every
\* list of keys.
C24_EncryptDecrypt ==
    result # NotCalled
    => LET keys == argument.keys
       IN /\ result.kind \in {"encrypted", "round trip"}
             => /\ result.ciphertext.prefix = "enc"
                /\ result.ciphertext.text = argument.plaintext
                /\ IF keys = <<>> THEN result.ciphertext.type = "identity"
                   ELSE /\ result.ciphertext.type = keys[1].type
                        /\ result.ciphertext.secret = keys[1].secret
          /\ result.kind = "round trip"
             => result.decrypted = [ok |-> TRUE, text |-> argument.plaintext]
          /\ result.kind = "decrypted"
             => /\ (\E k \in 1..Len(keys) : CanDecrypt(keys[k], argument.ciphertext))
                   => result.decrypted = [ok |-> TRUE, text |-> argument.ciphertext.text]
                /\ ~result.decrypted.ok
                   => ~\E k \in 1..Len(keys) : CanDecrypt(keys[k], argument.ciphertext)

\* decrypt has opened an identity ciphertext with the third key of the list,
\* after two AES keys
C24_Witness ==
    /\ result # NotCalled
    /\ result.kind = "decrypted"
    /\ argument.keys = <<AESEncryptionKey(1), AESEncryptionKey(2), IdentityKey>>
    /\ argument.ciphertext.type = "identity"
    /\ result.decrypted.ok

====
